---- MODULE Spec2Model ----
(***************************************************************************)
(* Multiscale entropy orchestration of neurokit2/complexity/               *)
(* entropy_multiscale.py: the public entry point entropy_multiscale and    *)
(* the internal pipeline _entropy_multiscale with its three per-scale      *)
(* methods (_entropy_multiscale_mse, _cmse, _rcmse).                       *)
(*                                                                         *)
(* Floating-point values are records [k, n, d]: k = "fin" is the exact     *)
(* rational n/d (d > 0, lowest terms); k = "nan", "pinf", "ninf" are the   *)
(* IEEE special values.  Arithmetic follows numpy: nan is absorbing,       *)
(* inf + (-inf) = nan, x / 0 gives nan or a signed infinity with a warning *)
(* and no exception.  Rounding and overflow of finite values are not       *)
(* modelled.                                                               *)
(*                                                                         *)
(* The entropy estimators (entropy_sample, entropy_approximate, _phi), the *)
(* coarse-graining transforms and the tolerance heuristic live outside     *)
(* this file: their results are inputs, chosen nondeterministically at the *)
(* step that calls them.  The flags fuzzy and approximate are only         *)
(* forwarded to those estimators and carry no state here.                  *)
(***************************************************************************)
EXTENDS Integers, Sequences, FiniteSets, TLC

\* ---------------------------------------------------------------- bounds
MaxScale == 3
MaxDim == 2
SignalLen == 12

\* --------------------------------------------------------- float values
Abs(x) == IF x < 0 THEN -x ELSE x

RECURSIVE GCD(_, _)
GCD(a, b) == IF b = 0 THEN a ELSE GCD(b, a % b)

Norm(n, d) ==
    LET g == GCD(Abs(n), d)
    IN  [k |-> "fin", n |-> n \div g, d |-> d \div g]

Fin(n) == [k |-> "fin", n |-> n, d |-> 1]
NaN == [k |-> "nan", n |-> 0, d |-> 1]
PInf == [k |-> "pinf", n |-> 0, d |-> 1]
NInf == [k |-> "ninf", n |-> 0, d |-> 1]

isfinite(x) == x.k = "fin"
isnan(x) == x.k = "nan"

\* float addition
FAdd(a, b) ==
    IF a.k = "nan" \/ b.k = "nan" THEN NaN
    ELSE IF a.k = "fin" /\ b.k = "fin" THEN Norm(a.n * b.d + b.n * a.d, a.d * b.d)
    ELSE IF a.k = "fin" THEN b
    ELSE IF b.k = "fin" THEN a
    ELSE IF a.k = b.k THEN a
    ELSE NaN

\* faulty variant: an empty division coerced to zero
FDivIntZero(a, c) ==
    IF c = 0 THEN Fin(0)
    ELSE IF a.k = "fin" THEN Norm(a.n, a.d * c)
    ELSE a

\* numpy float64 divided by a non-negative Python int (len(...))
FDivInt(a, c) ==
    IF c = 0
    THEN IF a.k = "fin"
         THEN IF a.n = 0 THEN NaN ELSE IF a.n > 0 THEN PInf ELSE NInf
         ELSE a
    ELSE IF a.k = "fin" THEN Norm(a.n, a.d * c)
    ELSE a

\* float divided by float (np.divide)
FDiv(a, b) ==
    IF a.k = "nan" \/ b.k = "nan" THEN NaN
    ELSE IF a.k = "fin" /\ b.k = "fin"
    THEN IF b.n = 0
         THEN IF a.n = 0 THEN NaN ELSE IF a.n > 0 THEN PInf ELSE NInf
         ELSE IF b.n > 0 THEN Norm(a.n * b.d, a.d * b.n)
         ELSE Norm(-(a.n * b.d), a.d * (-b.n))
    ELSE IF a.k = "fin" THEN Fin(0)
    ELSE IF b.k = "fin"
    THEN IF b.n >= 0 THEN a ELSE IF a.k = "pinf" THEN NInf ELSE PInf
    ELSE NaN

RECURSIVE FSum(_)
FSum(s) == IF s = <<>> THEN Fin(0) ELSE FAdd(Head(s), FSum(Tail(s)))

\* np.mean: sum / count (nan with a warning on an empty array)
npmean(s) == FDivInt(FSum(s), Len(s))

\* np.sum
npsum(y) == FSum(y)

\* np.trapz(y) with dx = 1: (d * (y[1:] + y[:-1]) / 2.0).sum()
nptrapz(y) ==
    FSum([j \in 1..(IF Len(y) = 0 THEN 0 ELSE Len(y) - 1) |->
            FDivInt(FAdd(y[j + 1], y[j]), 2)])

\* ------------------------------------------------ external collaborators
\* results the entropy estimator can hand back for one coarse-grained series
EstVals == {Fin(1), Fin(2), NaN, PInf, NInf}

\* phi pairs (dimension m, dimension m+1) the estimator can hand back for one row
PhiPairs == {<<Fin(2), Fin(1)>>, <<Fin(1), Fin(1)>>, <<Fin(0), Fin(0)>>,
             <<NaN, NaN>>, <<PInf, Fin(1)>>}

\* natural logarithm of small positive integers, in thousandths
LnMilli == <<0, 693, 1099, 1386, 1609, 1792, 1946, 2079, 2197, 2303, 2398, 2485>>

\* -log(x) for a float x >= 0
NegLog(x) ==
    IF x.k = "nan" THEN NaN
    ELSE IF x.k = "pinf" THEN NInf
    ELSE IF x.k = "ninf" THEN NaN
    ELSE IF x.n < 0 THEN NaN
    ELSE IF x.n = 0 THEN PInf
    ELSE Norm(LnMilli[x.d] - LnMilli[x.n], 1000)

\* utils._phi_divide: the log-ratio step applied to a phi pair
phi_divide(phi) ==
    IF phi[1] = Fin(0) THEN NInf
    ELSE LET division == FDiv(phi[2], phi[1])
         IN  IF division = Fin(0) THEN PInf ELSE NegLog(division)

\* length of the 1-D series complexity_coarsegraining(signal, scale=tau) returns
CoarseLen(n, tau) == n \div tau

\* _get_coarsegrained_rolling(signal, tau): tau rows of n // tau samples
StackRows(tau) == tau
StackSize(n, tau) == tau * (n \div tau)

\* coarse.ndim of complexity_coarsegraining(signal, scale, method=...)
CoarseNdim(m) == IF m = "timeshift" THEN 2 ELSE 1

\* ------------------------------------------------------- pure functions
RECURSIVE Pow10(_)
Pow10(e) == IF e = 0 THEN 1 ELSE 10 * Pow10(e - 1)

\* mse_y == np.nan: an IEEE comparison with not-a-number is never true
EqNan(x) == FALSE

\* the sequences of len estimator results drawn from S
Rows(S, len) == [1..len -> S]

\* faulty variant: the mean taken without dropping the non-finite entries
validmean_nofilter(x) == npmean(x)

\* entropy_multiscale._validmean
validmean(x) ==
    LET kept == SelectSeq(x, isfinite)
    IN  IF Len(kept) = 0 THEN NaN ELSE npmean(kept)

\* entropy_multiscale._run_algo: r is what the estimator returns per series
run_algo(ndim, rows) ==
    IF ndim = 1 THEN rows[1] ELSE validmean(rows)

\* _entropy_multiscale_mse: r is what entropy_sample returns when consulted
entropy_multiscale_mse(n, tau, dim, r) ==
    IF CoarseLen(n, tau) < Pow10(dim) THEN NaN ELSE r

\* faulty variant: only the infinities are dropped, not-a-number rows are kept
cmse_keep_nan(n, tau, dim, mse_y) ==
    IF StackSize(n, tau) < Pow10(dim) THEN NaN
    ELSE IF Cardinality({j \in 1..Len(mse_y) :
                mse_y[j] = PInf \/ mse_y[j] = NInf}) = Len(mse_y)
    THEN NaN
    ELSE npmean(SelectSeq(mse_y, LAMBDA v : v # PInf /\ v # NInf))

\* _entropy_multiscale_cmse: mse_y are the per-row results of entropy_sample
entropy_multiscale_cmse(n, tau, dim, mse_y) ==
    IF StackSize(n, tau) < Pow10(dim) THEN NaN
    ELSE IF Cardinality({j \in 1..Len(mse_y) :
                mse_y[j] = PInf \/ mse_y[j] = NInf \/ EqNan(mse_y[j])}) = Len(mse_y)
    THEN NaN
    ELSE npmean(SelectSeq(mse_y, LAMBDA v : v # PInf /\ v # NInf /\ ~isnan(v)))

Column(rows, c) == [j \in 1..Len(rows) |-> rows[j][c]]

\* [np.mean(phi_[:, 0]), np.mean(phi_[:, 1])]
phi_average(phi_) == <<npmean(Column(phi_, 1)), npmean(Column(phi_, 2))>>

\* _entropy_multiscale_rcmse: phi_ are the per-row results of _phi
entropy_multiscale_rcmse(n, tau, dim, phi_) ==
    IF StackSize(n, tau) < Pow10(dim) THEN NaN
    ELSE phi_divide(phi_average(phi_))

\* faulty variant: a non-finite per-scale value is not stored
Collect_finite(vals, v) == IF isfinite(v) THEN Append(vals, v) ELSE vals

\* the list comprehension of entropy_multiscale: one entry per scale, in order
Collect(vals, v) == Append(vals, v)

\* faulty variant: plain sum in place of the trapezoid
aggregate_sum(vals) ==
    LET kept == SelectSeq(vals, isfinite)
    IN  FDivInt(npsum(kept), Len(kept))

\* ScaleAggregator of entropy_multiscale
aggregate_public(vals) ==
    LET kept == SelectSeq(vals, isfinite)
    IN  FDivInt(nptrapz(kept), Len(kept))

\* ScaleAggregator of _entropy_multiscale
aggregate_internal(mse_vals) ==
    LET notnan == SelectSeq(mse_vals, LAMBDA v : ~isnan(v))
        kept == SelectSeq(notnan, LAMBDA v : v # PInf /\ v # NInf)
    IN  FDivInt(nptrapz(kept), Len(kept))

\* ---------------------------------------------------------------- state
VARIABLES
    entry,      \* "public": entropy_multiscale, "internal": _entropy_multiscale
    sigKind,    \* container and shape of the signal argument
    dimension,  \* embedding dimension
    composite,  \* flag composite
    refined,    \* flag refined
    show,       \* flag show
    method,     \* kwargs["method"], forwarded to complexity_coarsegraining
    Scale,      \* info["Scale"] / scale_factors
    pc,         \* position of the call
    i,          \* 1-based position of the next scale factor in the loop
    Value,      \* info["Value"] / mse_vals
    est,        \* entropy results the estimator returned at the last scale
    phi,        \* phi pairs the estimator returned at the last scale
    phiAvg,     \* the two averaged phi components of the last scale
    calls,      \* per scale position, how many times the estimator was consulted
    computed,   \* per scale factor, the per-scale value the combiner produced
    mse,        \* the index
    err,        \* the exception that ended the call, if any
    ret         \* the returned pair (index, profile), <<>> before the return

vars == <<entry, sigKind, dimension, composite, refined, show, method, Scale,
          pc, i, Value, est, phi, phiAvg, calls, computed, mse, err, ret>>

params == <<entry, sigKind, dimension, composite, refined, show, method, Scale>>

Unset == [k |-> "unset", n |-> 0, d |-> 1]

SigKinds == {"vector", "ndarray2d", "dataframe2d", "nested_list"}
Methods == {"nonoverlapping", "timeshift"}
Range(a, b) == [j \in 1..(b - a + 1) |-> a + j - 1]
Reverse(s) == [j \in 1..Len(s) |-> s[Len(s) + 1 - j]]
\* scale policies: an integer bound S gives 1..S, an explicit list is used verbatim
ScaleLists == {Range(1, S) : S \in 0..MaxScale} \cup {Reverse(Range(1, S)) : S \in 2..MaxScale}

MultiDim(kind) == kind \in {"ndarray2d", "dataframe2d", "nested_list"}

Init ==
    /\ entry \in {"public", "internal"}
    /\ sigKind \in (IF entry = "public" THEN SigKinds ELSE {"vector"})
    /\ dimension \in 1..MaxDim
    /\ composite \in BOOLEAN
    /\ refined \in BOOLEAN
    /\ show \in BOOLEAN
    /\ method \in (IF entry = "public" THEN Methods ELSE {"nonoverlapping"})
    /\ Scale \in ScaleLists
    /\ pc = "call"
    /\ i = 1
    /\ Value = <<>>
    /\ est = <<>>
    /\ phi = <<>>
    /\ phiAvg = <<>>
    /\ calls = <<>>
    /\ computed = [t \in 1..MaxScale |-> Unset]
    /\ mse = Unset
    /\ err = "none"
    /\ ret = <<>>

\* entropy_multiscale, sanity check on the signal's dimensions
Validate ==
    /\ pc = "call"
    /\ entry = "public"
    /\ IF sigKind \in {"ndarray2d", "dataframe2d"}
       THEN pc' = "raised" /\ err' = "ValueError"
       ELSE pc' = "store" /\ err' = err
    /\ UNCHANGED <<params, i, Value, est, phi, phiAvg, calls, computed, mse, ret>>

\* entropy_multiscale, info = {Dimension, Scale, Tolerance}: scale selection and
\* tolerance estimation run.  What they and the later stages do with a nested
\* list is decided outside this file: the call fails there or goes on there.
StoreParameters ==
    /\ pc = "store"
    /\ IF sigKind = "nested_list"
       THEN \/ pc' = "raised" /\ err' = "ExternalError"
            \/ pc' = "external" /\ err' = err
       ELSE pc' = "loop" /\ err' = err
    /\ UNCHANGED <<params, i, Value, est, phi, phiAvg, calls, computed, mse, ret>>

\* entropy_multiscale, one element of the comprehension that builds info["Value"]
RunAlgo ==
    /\ pc = "loop"
    /\ entry = "public"
    /\ i <= Len(Scale)
    /\ LET tau == Scale[i]
           ndim == CoarseNdim(method)
           nrows == IF ndim = 1 THEN 1 ELSE StackRows(tau)
       IN  \E rows \in Rows(EstVals, nrows) :
              /\ Value' = Collect(Value, run_algo(ndim, rows))
              /\ est' = rows
              /\ calls' = Append(calls, nrows)
              /\ computed' = [computed EXCEPT ![tau] = run_algo(ndim, rows)]
    /\ pc' = "step"
    /\ UNCHANGED <<params, i, phi, phiAvg, mse, err, ret>>

\* entropy_multiscale, "for scale in info['Scale']": the coarse-grained series
\* and the estimator's results of this scale are dropped, the next scale is taken
NextScalePublic ==
    /\ pc = "step"
    /\ entry = "public"
    /\ i' = i + 1
    /\ est' = <<>>
    /\ phi' = <<>>
    /\ phiAvg' = <<>>
    /\ pc' = "loop"
    /\ UNCHANGED <<params, Value, calls, computed, mse, err, ret>>

\* entropy_multiscale, removal of non-finite entries and area under the curve
AggregatePublic ==
    /\ pc = "loop"
    /\ entry = "public"
    /\ i > Len(Scale)
    /\ mse' = aggregate_public(Value)
    /\ pc' = "plot"
    /\ UNCHANGED <<params, i, Value, est, phi, phiAvg, calls, computed, err, ret>>

\* entropy_multiscale, plot overlay (_entropy_multiscale_plot(info), a side
\* effect only) and return
ReturnPublic ==
    /\ pc = "plot"
    /\ entry = "public"
    /\ pc' = "returned"
    /\ ret' = <<mse, Value>>
    /\ UNCHANGED <<params, i, Value, est, phi, phiAvg, calls, computed, mse, err>>

\* _entropy_multiscale, mse_vals = np.full(len(scale_factors), np.nan)
InternalBegin ==
    /\ pc = "call"
    /\ entry = "internal"
    /\ Value' = [j \in 1..Len(Scale) |-> NaN]
    /\ pc' = "loop"
    /\ UNCHANGED <<params, i, est, phi, phiAvg, calls, computed, mse, err, ret>>

\* _entropy_multiscale, loop body, branch "Regular MSE"
StepMse ==
    /\ pc = "loop"
    /\ entry = "internal"
    /\ i <= Len(Scale)
    /\ refined = FALSE /\ composite = FALSE
    /\ LET tau == Scale[i]
           below == CoarseLen(SignalLen, tau) < Pow10(dimension)
       IN  \E rows \in (IF below THEN {<<>>} ELSE Rows(EstVals, 1)) :
              LET r == IF below THEN NaN ELSE rows[1]
                  v == entropy_multiscale_mse(SignalLen, tau, dimension, r)
              IN  /\ Value' = [Value EXCEPT ![i] = v]
                  /\ est' = rows
                  /\ calls' = Append(calls, Len(rows))
                  /\ computed' = [computed EXCEPT ![tau] = v]
    /\ pc' = "step"
    /\ UNCHANGED <<params, i, phi, phiAvg, mse, err, ret>>

\* _entropy_multiscale, loop body, branch "Composite MSE"
StepCmse ==
    /\ pc = "loop"
    /\ entry = "internal"
    /\ i <= Len(Scale)
    /\ refined = FALSE /\ composite = TRUE
    /\ LET tau == Scale[i]
           below == StackSize(SignalLen, tau) < Pow10(dimension)
       IN  \E rows \in (IF below THEN {<<>>} ELSE Rows(EstVals, StackRows(tau))) :
              LET v == entropy_multiscale_cmse(SignalLen, tau, dimension, rows)
              IN  /\ Value' = [Value EXCEPT ![i] = v]
                  /\ est' = rows
                  /\ calls' = Append(calls, Len(rows))
                  /\ computed' = [computed EXCEPT ![tau] = v]
    /\ pc' = "step"
    /\ UNCHANGED <<params, i, phi, phiAvg, mse, err, ret>>

\* _entropy_multiscale, loop body, branch "Refined Composite MSE"
StepRcmse ==
    /\ pc = "loop"
    /\ entry = "internal"
    /\ i <= Len(Scale)
    /\ ~(refined = FALSE /\ composite = FALSE)
    /\ ~(refined = FALSE /\ composite = TRUE)
    /\ LET tau == Scale[i]
           below == StackSize(SignalLen, tau) < Pow10(dimension)
       IN  \E rows \in (IF below THEN {<<>>} ELSE Rows(PhiPairs, StackRows(tau))) :
              LET v == entropy_multiscale_rcmse(SignalLen, tau, dimension, rows)
              IN  /\ Value' = [Value EXCEPT ![i] = v]
                  /\ phi' = rows
                  /\ phiAvg' = IF below THEN <<>> ELSE phi_average(rows)
                  /\ calls' = Append(calls, Len(rows))
                  /\ computed' = [computed EXCEPT ![tau] = v]
    /\ pc' = "step"
    /\ UNCHANGED <<params, i, est, mse, err, ret>>

\* _entropy_multiscale, "for i, tau in enumerate(scale_factors)": the locals of
\* this scale are dropped, the next scale is taken
NextScaleInternal ==
    /\ pc = "step"
    /\ entry = "internal"
    /\ i' = i + 1
    /\ est' = <<>>
    /\ phi' = <<>>
    /\ phiAvg' = <<>>
    /\ pc' = "loop"
    /\ UNCHANGED <<params, Value, calls, computed, mse, err, ret>>

\* _entropy_multiscale, removal of non-finite entries and area under the curve
AggregateInternal ==
    /\ pc = "loop"
    /\ entry = "internal"
    /\ i > Len(Scale)
    /\ mse' = aggregate_internal(Value)
    /\ pc' = "plot"
    /\ UNCHANGED <<params, i, Value, est, phi, phiAvg, calls, computed, err, ret>>

\* _entropy_multiscale, plot overlay and return: the plot helper takes one
\* argument (info) and is called with two, which raises TypeError
ReturnInternal ==
    /\ pc = "plot"
    /\ entry = "internal"
    /\ IF show = TRUE
       THEN pc' = "raised" /\ err' = "TypeError" /\ ret' = ret
       ELSE pc' = "returned" /\ err' = err /\ ret' = <<mse, Value>>
    /\ UNCHANGED <<params, i, Value, est, phi, phiAvg, calls, computed, mse>>

Next ==
    \/ Validate
    \/ StoreParameters
    \/ RunAlgo
    \/ NextScalePublic
    \/ AggregatePublic
    \/ ReturnPublic
    \/ InternalBegin
    \/ StepMse
    \/ StepCmse
    \/ StepRcmse
    \/ NextScaleInternal
    \/ AggregateInternal
    \/ ReturnInternal

Spec == Init /\ [][Next]_vars

\* ------------------------------------------------- properties: helpers
\* exact rationals as pairs <<numerator, denominator>>, denominator > 0
QOf(x) == <<x.n, x.d>>
QAdd(p, q) ==
    LET num == p[1] * q[2] + q[1] * p[2]
        den == p[2] * q[2]
        g == GCD(Abs(num), den)
    IN  <<num \div g, den \div g>>

RECURSIVE QSum(_)
QSum(s) == IF s = <<>> THEN <<0, 1>> ELSE QAdd(QOf(Head(s)), QSum(Tail(s)))

RECURSIVE FiniteOnes(_)
FiniteOnes(s) ==
    IF s = <<>> THEN <<>>
    ELSE IF Head(s).k = "fin" THEN <<Head(s)>> \o FiniteOnes(Tail(s))
    ELSE FiniteOnes(Tail(s))

\* arithmetic mean of exactly the finite entries, not-a-number when there is none
MeanOfFinite(s) ==
    LET f == FiniteOnes(s)
        q == QSum(f)
    IN  IF f = <<>> THEN NaN ELSE Norm(q[1], q[2] * Len(f))

AllNonFinite(s) == \A j \in 1..Len(s) : s[j].k # "fin"
SomeFinite(s) == \E j \in 1..Len(s) : s[j].k = "fin"
NonFiniteToNaN(x) == IF x.k = "fin" THEN x ELSE NaN

\* the trapezoid over unit-spaced positions, divided by the number of entries:
\* (2 * sum(v) - v[1] - v[k]) / (2 * k)
TrapezoidOverCount(v) ==
    LET k == Len(v)
        q == QSum(v)
        a == QOf(v[1])
        b == QOf(v[k])
        twice == QAdd(<<2 * q[1], q[2]>>, QAdd(<<-a[1], a[2]>>, <<-b[1], b[2]>>))
    IN  Norm(twice[1], twice[2] * 2 * k)

Aggregated == mse # Unset
Stepped == pc = "step"
FiniteRows(rows) == SelectSeq(rows, LAMBDA r : r[1].k = "fin" /\ r[2].k = "fin")

\* size the 10^dimension floor is compared with: the 1-D series, or the whole stack
SeriesSize(j) ==
    IF entry = "internal"
    THEN IF composite \/ refined THEN StackSize(SignalLen, Scale[j])
         ELSE CoarseLen(SignalLen, Scale[j])
    ELSE IF CoarseNdim(method) = 2 THEN StackSize(SignalLen, Scale[j])
         ELSE CoarseLen(SignalLen, Scale[j])

\* ---------------------------------------------------------- properties
\* C1: at every evaluated scale the per-scale value is produced by the variant the
\* flags imply: refined -> log-ratio of the averaged phi pairs; composite without
\* refined -> mean of the finite per-row entropies; neither -> the one entropy
\* result of the one coarse-grained series (not-a-number below the size floor).
C1_VariantFollowsFlags ==
    Stepped =>
        LET tau == Scale[i]
            v == Value[i]
        IN  \/ calls[i] = 0 /\ v = NaN
            \/ /\ refined
               /\ Len(phi) = StackRows(tau)
               /\ phiAvg = <<npmean(Column(phi, 1)), npmean(Column(phi, 2))>>
               /\ v = phi_divide(phiAvg)
            \/ /\ ~refined /\ composite
               /\ Len(est) = StackRows(tau) /\ phi = <<>>
               /\ v = MeanOfFinite(est)
            \/ /\ ~refined /\ ~composite
               /\ Len(est) = 1 /\ phi = <<>>
               /\ v = est[1]

\* C2: a scale whose coarse-grained series is shorter than 10^dimension has a
\* not-a-number per-scale value, the estimator is not consulted for it, and the
\* index is computed over strictly fewer entries than there are scales.
C2_ShortSeriesGivesNaN ==
    \A j \in 1..Len(calls) :
        SeriesSize(j) < Pow10(dimension) =>
            /\ Value[j] = NaN
            /\ calls[j] = 0
            /\ Aggregated => Len(FiniteOnes(Value)) < Len(Scale)

\* C3: when every per-scale value is non-finite the aggregation yields a
\* not-a-number index (not zero, and the call does not end in the aggregation).
C3_AllNonFiniteGivesNaNIndex ==
    (/\ pc \in {"plot", "returned", "raised"}
     /\ err \notin {"ValueError", "ExternalError"}
     /\ AllNonFinite(Value))
        => mse = NaN

C3_Witness ==
    /\ pc = "plot"
    /\ entry = "internal"
    /\ Len(Value) >= 2
    /\ AllNonFinite(Value)
    /\ \E j \in 1..Len(Value) : Value[j] = NaN
    /\ \E j \in 1..Len(Value) : Value[j] \in {PInf, NInf}

\* C4: in the composite variant, once the stack passes the size floor, the
\* per-scale value is the mean of exactly the finite row results, not-a-number
\* when no row result is finite, and never an infinity.
CompositeRan ==
    /\ Stepped
    /\ est # <<>>
    /\ \/ entry = "internal" /\ composite /\ ~refined
       \/ entry = "public" /\ CoarseNdim(method) = 2

C5_ProfileAlignedWithScale ==
    (entry = "public" /\ pc = "returned") =>
        /\ Len(ret[2]) = Len(Scale)
        /\ Value = ret[2]
        /\ \A j \in 1..Len(Scale) : ret[2][j] = computed[Scale[j]]

C5_Witness ==
    /\ entry = "public"
    /\ pc = "returned"
    /\ Len(Scale) = 3
    /\ Scale[1] > Scale[2]
    /\ ret[2][1] = NaN
    /\ ret[2][2] = PInf
    /\ ret[2][3].k = "fin"

\* C6: a multi-dimensional signal, whatever holds it, makes entropy_multiscale
\* fail with the validation error before anything else runs.
C6_MultiDimRejectedFirst ==
    (entry = "public" /\ MultiDim(sigKind)) =>
        /\ pc \in {"call", "raised"}
        /\ pc = "raised" => err = "ValueError"

C8_ShowOnlySideEffect ==
    (Aggregated /\ pc # "plot") => (pc = "returned" /\ ret = <<mse, Value>>)

\* C9: in the refined-composite variant the rows with a non-finite phi pair are
\* left out of both averages: with at least one finite row, the two averaged
\* components are the means over the finite rows only, and the per-scale value
\* is their log-ratio (so one non-finite row does not make it not-a-number).
MeansOverFiniteRows ==
    <<MeanOfFinite(Column(FiniteRows(phi), 1)),
      MeanOfFinite(Column(FiniteRows(phi), 2))>>

C9_RefinedSkipsNonFiniteRows ==
    (Stepped /\ phi # <<>> /\ FiniteRows(phi) # <<>>) =>
        /\ phiAvg = MeansOverFiniteRows
        /\ Value[i] = phi_divide(MeansOverFiniteRows)

\* C10 as stated: at scale factor 1 the composite per-scale value equals the
\* plain per-scale value for every estimator result and either outcome of the
\* size floor.
ScaleOneStep == Stepped /\ Scale[i] = 1 /\ phi = <<>> /\ ~(entry = "internal" /\ refined)
RowResult == IF est = <<>> THEN NaN ELSE est[1]
PlainCall ==
    \/ entry = "internal" /\ ~composite
    \/ entry = "public" /\ CoarseNdim(method) = 1
OtherVariantAtScaleOne ==
    IF entry = "internal"
    THEN IF composite
         THEN entropy_multiscale_mse(SignalLen, 1, dimension, RowResult)
         ELSE entropy_multiscale_cmse(SignalLen, 1, dimension, est)
    ELSE IF CoarseNdim(method) = 2 THEN run_algo(1, est) ELSE run_algo(2, est)
PlainAtScaleOne == IF PlainCall THEN Value[i] ELSE OtherVariantAtScaleOne
CompositeAtScaleOne == IF PlainCall THEN OtherVariantAtScaleOne ELSE Value[i]

C10_CompositeEqualsPlainAtScaleOne ==
    ScaleOneStep => CompositeAtScaleOne = PlainAtScaleOne

\* C10 as amended: at scale factor 1 the composite per-scale value equals the
\* plain one when the estimator result is finite or not-a-number, for either
\* outcome of the size floor; on an infinite estimator result the plain variant
\* keeps the infinity and the composite variant gives not-a-number.
C10_CompositeIsPlainWithoutInfinity ==
    ScaleOneStep => CompositeAtScaleOne = NonFiniteToNaN(PlainAtScaleOne)

C10_Witness ==
    /\ ScaleOneStep
    /\ entry = "internal"
    /\ composite
    /\ est = <<PInf>>
    /\ Value[i] = NaN
    /\ PlainAtScaleOne = PInf

====
